---- MODULE Spec2Model ----
(***************************************************************************)
(* The pairing relay of ppt-controller-web (the /api/ws route): a          *)
(* token-keyed map of two-slot rooms, the 'connection' handler (reject or  *)
(* join, with replacement), the 'message' handler (signal forwarding and   *)
(* ping) and the shared 'close'/'error' handler.  JavaScript handlers run  *)
(* to completion on one event loop, so each handler is one action.         *)
(*                                                                         *)
(* The client page (src/pages/index.js): its WebSocket, the gesture        *)
(* classifier of the touch pad (swipe, tap, double tap) and the knock      *)
(* classifier of the microphone loop, with their timers, on a clock that   *)
(* advances in ticks.  Spec runs the relay, GestureSpec the touch pad and  *)
(* MicSpec the microphone; each leaves the other parts at rest.            *)
(***************************************************************************)
EXTENDS Integers, Sequences, FiniteSets, TLC

(* ---------------------------------------------------------------- bounds *)

\* Number of transport connections that ever reach the relay.
MaxConns == 3

Conns == 1 .. MaxConns

\* A slot of a room that holds no WebSocket (JavaScript null).
Null == 0

(* ------------------------------------------------------- handshake input *)

\* URLSearchParams.get returns null for a parameter that is missing.
Missing == "<null>"

\* The token values a client may supply: missing, empty, or a string.
TokenInputs == {Missing, "", "t1", "t2"}

\* The role values a client may supply.
RoleInputs == {Missing, "", "desktop", "web", "admin"}

\* The roles of a room: the keys of { desktop: null, web: null }.
Roles == {"desktop", "web"}

\* The tokens that can key a room (the truthy token inputs).
Tokens == {"t1", "t2"}

\* rooms.get(token) of a token that has no room (JavaScript undefined).
NoRoom == [absent |-> TRUE]

(* -------------------------------------------------------------- envelopes *)

ErrorEnv(m) == [type |-> "error", message |-> m]

ConnectedEnv(role, token) == [type |-> "connected", role |-> role, token |-> token]

StatusEnv(d, w) == [type |-> "status", desktop |-> d, web |-> w]

SignalEnv(n) == [type |-> "signal", name |-> n]

PongEnv == [type |-> "pong"]

\* ws.send inside try/catch: the call is made; the envelope goes out only when
\* the socket is OPEN, and a failure is swallowed.
Send(to, env, rdy) == [to |-> to, env |-> env, ok |-> rdy[to] = "OPEN"]

(* ---------------------------------------------------------- inbound text *)

\* A field that the parsed object does not have.
Undefined == "<undefined>"

RawBadJson == "{oops"
RawNull == "null"
RawSignal1 == "{\"type\":\"signal\",\"name\":\"signal-1\"}"
RawSignal2Extra == "{\"type\":\"signal\",\"name\":\"signal-2\",\"id\":7}"
RawSignalBogus == "{\"type\":\"signal\",\"name\":\"bogus\"}"
RawSignalNoName == "{\"type\":\"signal\"}"
RawPing == "{\"type\":\"ping\"}"
RawHello == "{\"type\":\"hello\"}"

\* The texts a client may send.
Raws ==
  {RawBadJson, RawNull, RawSignal1, RawSignal2Extra, RawSignalBogus,
   RawSignalNoName, RawPing, RawHello}

Obj(t, n, x) == [ok |-> TRUE, isNull |-> FALSE, type |-> t, name |-> n, extra |-> x]

\* JSON.parse(raw.toString()): a thrown SyntaxError is ok = FALSE.
JSONparse(raw) ==
  CASE raw = RawBadJson -> [ok |-> FALSE, isNull |-> FALSE, type |-> Undefined,
                            name |-> Undefined, extra |-> FALSE]
    [] raw = RawNull -> [ok |-> TRUE, isNull |-> TRUE, type |-> Undefined,
                         name |-> Undefined, extra |-> FALSE]
    [] raw = RawSignal1 -> Obj("signal", "signal-1", FALSE)
    [] raw = RawSignal2Extra -> Obj("signal", "signal-2", TRUE)
    [] raw = RawSignalBogus -> Obj("signal", "bogus", FALSE)
    [] raw = RawSignalNoName -> Obj("signal", Undefined, FALSE)
    [] raw = RawPing -> Obj("ping", Undefined, FALSE)
    [] raw = RawHello -> Obj("hello", Undefined, FALSE)

(* ------------------------------------------------------------------ state *)

VARIABLES
  rooms,       \* the module-level Map: token -> room, or NoRoom
  readyState,  \* ws.readyState of each connection ("NONE" before it arrives)
  closeCode,   \* the code the relay passed to ws.close (0: never called)
  reg,         \* the handler closure of an accepted connection: token, role
  inbound,     \* the connection's receiver still delivers events to the relay
  nextId,      \* the next connection to arrive
  last,        \* the handler that ran last and its inputs
  sent,        \* the ws.send calls of the handler that ran last, in order
  prevRooms,   \* rooms before the handler that ran last
  prevReady,   \* readyState before the handler that ran last
  afterDrop    \* the handler that ran last is a join into the slot for which the
               \* handler before it dropped a valid signal

vars ==
  <<rooms, readyState, closeCode, reg, inbound, nextId, last, sent,
    prevRooms, prevReady, afterDrop>>

NoReg == [accepted |-> FALSE, token |-> Missing, role |-> Missing]

Last(op, c, token, role, raw, prev) ==
  [op |-> op, c |-> c, token |-> token, role |-> role, raw |-> raw, prev |-> prev]

RelayInit ==
  /\ rooms = [t \in Tokens |-> NoRoom]
  /\ readyState = [c \in Conns |-> "NONE"]
  /\ closeCode = [c \in Conns |-> 0]
  /\ reg = [c \in Conns |-> NoReg]
  /\ inbound = [c \in Conns |-> FALSE]
  /\ nextId = 1
  /\ last = Last("init", Null, Missing, Missing, "", Null)
  /\ sent = <<>>
  /\ prevRooms = rooms
  /\ prevReady = readyState
  /\ afterDrop = FALSE

(* ----------------------------------------------------------- client state *)

\* A ref that holds no timer, frame handle or object (JavaScript null).
None == -1

VARIABLES
  now,               \* performance.now(), in milliseconds
  mounted,           \* the page is mounted (its cleanup effect has not run)
  wsRef,             \* wsRef.current: "null" or the socket "ws"
  wsReady,           \* readyState of the client's socket ("NONE": never created)
  connected,         \* the React state connected: the touch pad is shown
  touchStart,        \* touchStartRef.current: x, y, isDown (t is never read)
  lastTapTime,       \* lastTapTimeRef.current
  singleTapTimerRef, \* singleTapTimerRef.current: a timer (its due time) or None
  tapTimers,         \* the single-tap timeouts that are set and not yet run
  ups,               \* every pointer-up handled so far: time and branch taken
  micEnabled,        \* the React state micEnabled
  acquiring,         \* startMic calls awaiting getUserMedia
  audioCtx,          \* audioCtxRef.current: a context or None
  analyserRef,       \* analyserRef.current: an analyser or None
  rafRef,            \* rafRef.current: the frame request made last, or None
  rafPending,        \* detect loops with a frame request outstanding
  nextLoop,          \* the next detect loop (and context) to be created
  lastKnockTime,     \* lastKnockTimeRef.current
  pendingKnock,      \* pendingKnockRef.current
  knockTimerRef,     \* knockTimerRef.current: a timer (its due time) or None
  knockTimers,       \* the knock timeouts that are set and not yet run
  knocks,            \* every knock frame so far: time, pending flag it found
  micStopped,        \* stopMic has returned and startMic was not called since
  micStops,          \* the number of stopMic calls so far
  emitted,           \* the names of all sendSignal calls so far, in order
  clast,             \* the client handler that ran last
  cemit              \* the sendSignal calls of the client handler that ran last

gestureVars ==
  <<touchStart, lastTapTime, singleTapTimerRef, tapTimers, ups>>

micVars ==
  <<micEnabled, acquiring, audioCtx, analyserRef, rafRef, rafPending, nextLoop,
    lastKnockTime, pendingKnock, knockTimerRef, knockTimers, knocks, micStopped,
    micStops>>

wsVars == <<wsRef, wsReady, connected>>

clientVars ==
  <<now, mounted, wsVars, gestureVars, micVars, emitted, clast, cemit>>

allVars == <<vars, clientVars>>

CLast(op, arg) == [op |-> op, arg |-> arg]

ClientInit ==
  /\ now = 0
  /\ mounted = TRUE
  /\ wsRef = "null"
  /\ wsReady = "NONE"
  /\ connected = FALSE
  /\ touchStart = [x |-> 0, y |-> 0, isDown |-> FALSE]
  /\ lastTapTime = 0
  /\ singleTapTimerRef = None
  /\ tapTimers = {}
  /\ ups = <<>>
  /\ micEnabled = FALSE
  /\ acquiring = 0
  /\ audioCtx = None
  /\ analyserRef = None
  /\ rafRef = None
  /\ rafPending = {}
  /\ nextLoop = 1
  /\ lastKnockTime = 0
  /\ pendingKnock = FALSE
  /\ knockTimerRef = None
  /\ knockTimers = {}
  /\ knocks = <<>>
  /\ micStopped = FALSE
  /\ micStops = 0
  /\ emitted = <<>>
  /\ clast = CLast("init", None)
  /\ cemit = <<>>

\* The relay has no room and no connection; the page has just been mounted.
Init == RelayInit /\ ClientInit

(* ---------------------------------------------------------------- helpers *)

\* !token, !role: null and the empty string are falsy.
Truthy(s) == s # Missing /\ s # ""

\* The handshake test of the 'connection' handler, negated.
validHandshake(token, role) == Truthy(token) /\ Truthy(role) /\ role \in Roles

\* ws && ws.readyState === ws.OPEN
isOpen(w, rdy) == w # Null /\ rdy[w] = "OPEN"

getOrCreateRoom(rs, token) ==
  IF rs[token] = NoRoom
    THEN [rs EXCEPT ![token] = [desktop |-> Null, web |-> Null]]
    ELSE rs

\* room[role] = null, whatever the slot holds.
cleanupSocket(rs, token, role) ==
  IF rs[token] = NoRoom THEN rs ELSE [rs EXCEPT ![token][role] = Null]

\* Faulty variant: the two booleans are exchanged.
statusPayload_swapped(room) == StatusEnv(room.web # Null, room.desktop # Null)

\* { type: 'status', desktop: !!room.desktop, web: !!room.web }
statusPayload(room) == StatusEnv(room.desktop # Null, room.web # Null)

\* Faulty variant: the status of the room goes to the occupants of every room.
broadcastStatus_everyRoom(rs, token, rdy) ==
  IF rs[token] = NoRoom
    THEN <<>>
    ELSE LET room == rs[token]
             to(w) == IF isOpen(w, rdy) THEN <<Send(w, statusPayload(room), rdy)>> ELSE <<>>
             all(t) == IF rs[t] = NoRoom THEN <<>> ELSE to(rs[t].desktop) \o to(rs[t].web)
         IN all("t1") \o all("t2")

\* The ws.send calls of broadcastStatus(token): desktop first, then web.
broadcastStatus(rs, token, rdy) ==
  IF rs[token] = NoRoom
    THEN <<>>
    ELSE LET room == rs[token]
             to(w) == IF isOpen(w, rdy) THEN <<Send(w, statusPayload(room), rdy)>> ELSE <<>>
         IN to(room.desktop) \o to(room.web)

\* Faulty variant: the socket is closed without the error envelope.
rejectHandshake_silent(c, rdy, cc) ==
  [sent |-> <<>>,
   ready |-> [rdy EXCEPT ![c] = "CLOSING"],
   code |-> [cc EXCEPT ![c] = 1008]]

\* The rejecting branch: send the error, then ws.close(1008, ...).
rejectHandshake(c, rdy, cc) ==
  [sent |-> <<Send(c, ErrorEnv("Invalid token or role"), rdy)>>,
   ready |-> [rdy EXCEPT ![c] = "CLOSING"],
   code |-> [cc EXCEPT ![c] = 1008]]

\* Faulty variant: the occupant is overwritten without being closed.
replaceOld_keep(old, rdy, cc) == [ready |-> rdy, code |-> cc]

\* if (room[role] && room[role].readyState === OPEN) room[role].close(4000, ...)
replaceOld(old, rdy, cc) ==
  IF isOpen(old, rdy)
    THEN [ready |-> [rdy EXCEPT ![old] = "CLOSING"], code |-> [cc EXCEPT ![old] = 4000]]
    ELSE [ready |-> rdy, code |-> cc]

\* Faulty variant: the sender's own role is taken for the peer's.
peerRoleOf_same(role) == role

\* role === 'desktop' ? 'web' : 'desktop'
peerRoleOf(role) == IF role = "desktop" THEN "web" ELSE "desktop"

\* msg && msg.type === 'signal' && (msg.name === 'signal-1' || msg.name === 'signal-2')
isSignal(msg) ==
  ~msg.isNull /\ msg.type = "signal" /\ (msg.name = "signal-1" \/ msg.name = "signal-2")

\* msg && msg.type === 'ping'
isPing(msg) == ~msg.isNull /\ msg.type = "ping"

\* Faulty variant: a text that is not JSON is dropped without a reply.
invalidJsonReply_none(c, rdy) == <<>>

\* The catch branch of JSON.parse.
invalidJsonReply(c, rdy) == <<Send(c, ErrorEnv("Invalid JSON"), rdy)>>

\* Faulty variant: a ping is dropped without a reply.
pingReply_none(c, rdy) == <<>>

\* The ping branch.
pingReply(c, rdy) == <<Send(c, PongEnv, rdy)>>

\* The signal branch: forward { type: 'signal', name: msg.name } or report.
forward(c, role, room, msg, rdy) ==
  LET peer == room[peerRoleOf(role)]
  IN IF isOpen(peer, rdy)
       THEN <<Send(peer, SignalEnv(msg.name), rdy)>>
       ELSE <<Send(c, ErrorEnv("Peer not connected"), rdy)>>

\* The ws.send calls of the 'message' handler of connection c on text raw.
onMessage(c, role, room, raw, rdy) ==
  LET msg == JSONparse(raw)
  IN IF ~msg.ok THEN invalidJsonReply(c, rdy)
     ELSE IF isSignal(msg) THEN forward(c, role, room, msg, rdy)
     ELSE IF isPing(msg) THEN pingReply(c, rdy)
     ELSE <<>>

\* Faulty variant: a join is also handed a signal kept from before.
joinSends_replay(c, role, token, rs, rdy) ==
  <<Send(c, ConnectedEnv(role, token), rdy)>> \o broadcastStatus(rs, token, rdy)
    \o <<Send(c, SignalEnv("signal-1"), rdy)>>

\* Faulty variant: the status is broadcast before the acknowledgement.
joinSends_statusFirst(c, role, token, rs, rdy) ==
  broadcastStatus(rs, token, rdy) \o <<Send(c, ConnectedEnv(role, token), rdy)>>

\* After room[role] = ws: ws.send(connected), then broadcastStatus(token).
joinSends(c, role, token, rs, rdy) ==
  <<Send(c, ConnectedEnv(role, token), rdy)>> \o broadcastStatus(rs, token, rdy)

\* The handler that ran last was the 'message' handler on a valid signal
\* meant for slot role of Room(token), and it forwarded nothing: the peer
\* slot was empty or not OPEN and the sender was told so.
droppedFor(token, role) ==
  /\ last.op = "message"
  /\ last.token = token
  /\ peerRoleOf(last.role) = role
  /\ JSONparse(last.raw).ok
  /\ isSignal(JSONparse(last.raw))
  /\ \A i \in 1 .. Len(sent) : sent[i].env.type # "signal"

(* ---------------------------------------------------------- relay actions *)

\* 'connection' with a missing or invalid token or role.
ConnectReject(token, role) ==
  LET c == nextId
      r == rejectHandshake(c, [readyState EXCEPT ![c] = "OPEN"], closeCode)
  IN /\ nextId <= MaxConns
     /\ ~validHandshake(token, role)
     /\ readyState' = r.ready
     /\ closeCode' = r.code
     /\ sent' = r.sent
     /\ nextId' = nextId + 1
     /\ last' = Last("reject", c, token, role, "", Null)
     /\ prevRooms' = rooms
     /\ prevReady' = readyState
     /\ afterDrop' = FALSE
     /\ UNCHANGED <<rooms, reg, inbound, clientVars>>

\* 'connection' with a valid token and role: join, replacing an OPEN occupant.
ConnectJoin(token, role) ==
  LET c == nextId
      rs1 == getOrCreateRoom(rooms, token)
      old == rs1[token][role]
      r == replaceOld(old, [readyState EXCEPT ![c] = "OPEN"], closeCode)
      rs2 == [rs1 EXCEPT ![token][role] = c]
  IN /\ nextId <= MaxConns
     /\ validHandshake(token, role)
     /\ rooms' = rs2
     /\ readyState' = r.ready
     /\ closeCode' = r.code
     /\ reg' = [reg EXCEPT ![c] = [accepted |-> TRUE, token |-> token, role |-> role]]
     /\ inbound' = [inbound EXCEPT ![c] = TRUE]
     /\ sent' = joinSends(c, role, token, rs2, r.ready)
     /\ nextId' = nextId + 1
     /\ last' = Last("join", c, token, role, "", old)
     /\ prevRooms' = rooms
     /\ prevReady' = readyState
     /\ afterDrop' = droppedFor(token, role)
     /\ UNCHANGED clientVars

\* The 'connection' handler.
OnConnection(token, role) == ConnectReject(token, role) \/ ConnectJoin(token, role)

\* The 'message' handler of an accepted connection.
OnMessage(c, raw) ==
  /\ reg[c].accepted
  /\ inbound[c]
  /\ sent' = onMessage(c, reg[c].role, rooms[reg[c].token], raw, readyState)
  /\ afterDrop' = FALSE
  /\ last' = Last("message", c, reg[c].token, reg[c].role, raw, Null)
  /\ prevRooms' = rooms
  /\ prevReady' = readyState
  /\ UNCHANGED <<rooms, readyState, closeCode, reg, inbound, nextId, clientVars>>

\* onCloseOrError of connection c, run with readyState already rdy.
onCloseOrError(op, c, rdy) ==
  LET token == reg[c].token
      role == reg[c].role
      rs == cleanupSocket(rooms, token, role)
  IN /\ rooms' = rs
     /\ readyState' = rdy
     /\ sent' = broadcastStatus(rs, token, rdy)
     /\ last' = Last(op, c, token, role, "", rooms[token][role])
     /\ prevRooms' = rooms
     /\ prevReady' = readyState

\* 'error' of an accepted connection, emitted by its receiver on a bad frame:
\* the socket is CLOSING when the handler runs and receives nothing more.
OnError(c) ==
  /\ reg[c].accepted
  /\ inbound[c]
  /\ inbound' = [inbound EXCEPT ![c] = FALSE]
  /\ onCloseOrError("error", c, [readyState EXCEPT ![c] = "CLOSING"])
  /\ afterDrop' = FALSE
  /\ UNCHANGED <<closeCode, reg, nextId, clientVars>>

\* 'close' of an accepted connection: the socket is CLOSED.
OnClose(c) ==
  /\ reg[c].accepted
  /\ readyState[c] \in {"OPEN", "CLOSING"}
  /\ inbound' = [inbound EXCEPT ![c] = FALSE]
  /\ onCloseOrError("close", c, [readyState EXCEPT ![c] = "CLOSED"])
  /\ afterDrop' = FALSE
  /\ UNCHANGED <<closeCode, reg, nextId, clientVars>>

\* The client's close frame (or the end of its stream) arrives: the socket
\* turns CLOSING and delivers no more messages; no handler of the relay runs.
PeerCloseFrame(c) ==
  /\ inbound[c]
  /\ readyState' = [readyState EXCEPT ![c] = "CLOSING"]
  /\ inbound' = [inbound EXCEPT ![c] = FALSE]
  /\ sent' = <<>>
  /\ last' = Last("closing", c, reg[c].token, reg[c].role, "", Null)
  /\ prevRooms' = rooms
  /\ prevReady' = readyState
  /\ afterDrop' = FALSE
  /\ UNCHANGED <<rooms, closeCode, reg, nextId, clientVars>>

Next ==
  \/ \E token \in TokenInputs, role \in RoleInputs : OnConnection(token, role)
  \/ \E c \in Conns, raw \in Raws : OnMessage(c, raw)
  \/ \E c \in Conns : OnClose(c)
  \/ \E c \in Conns : OnError(c)
  \/ \E c \in Conns : PeerCloseFrame(c)

\* The relay, with the client page at rest.
Spec == Init /\ [][Next]_allVars

(* ------------------------------------------------------- client: bounds *)

\* The clock advances in steps: up to GestureMaxTicks steps of GestureTick
\* milliseconds while the touch pad is exercised, up to MicMaxTicks steps of
\* MicTick milliseconds with the microphone.
GestureTick == 100
GestureMaxTicks == 8
MicTick == 250
MicMaxTicks == 8

\* At most MaxUps pointer-ups are handled in one run.
MaxUps == 3

\* Where the pointer goes down, and where it comes up: a tap in place, the
\* swipes of 70 and 61 px to either side, and the boundaries |dx| = 60 and
\* |dx| = 2|dy|.
\* At most MaxKnocks frames above the threshold are analysed in one run, and
\* startMic is called at most MaxStarts times.
MaxKnocks == 3
MaxStarts == 2

\* Frames of the analyser's time-domain bytes (128 is silence): silence, a
\* frame just below the threshold, one just above it, and a loud one.
Frames == { <<128, 128>>, <<153, 153>>, <<154, 154>>, <<255, 0>> }

DownPoints == { <<100, 100>> }
UpPoints ==
  { <<100, 100>>, <<170, 102>>, <<30, 100>>, <<160, 100>>, <<40, 100>>,
    <<170, 135>>, <<161, 130>>, <<39, 100>> }

(* ------------------------------------------------------ client: helpers *)

Abs(n) == IF n < 0 THEN -n ELSE n

SWIPE_DIST == 60
SWIPE_RATIO == 2
TAP_WINDOW == 300

\* Faulty variant: a swipe of exactly SWIPE_DIST counts.
isSwipe_inclusive(dx, dy) ==
  Abs(dx) >= SWIPE_DIST /\ Abs(dx) > SWIPE_RATIO * Abs(dy)

\* absDx > SWIPE_DIST && absDx > SWIPE_RATIO * absDy
isSwipe(dx, dy) ==
  Abs(dx) > SWIPE_DIST /\ Abs(dx) > SWIPE_RATIO * Abs(dy)

\* if (dx > 0) sendSignal("signal-1"); else sendSignal("signal-2");
swipeSignal(dx) == IF dx > 0 THEN "signal-1" ELSE "signal-2"

\* sendSignal(name): the call, and whether it put the envelope on the socket
\* (wsRef.current is set and OPEN); otherwise it only logs.
sendSignal(name, by) ==
  [name |-> name, t |-> now, by |-> by,
   ok |-> wsRef # "null" /\ wsReady = "OPEN"]

\* The names of the signals of a sequence of sendSignal calls.
Names(calls) == [i \in 1 .. Len(calls) |-> calls[i].name]

\* clearTimeout(ref): the timer leaves the set of timers that will run;
\* clearing a timer that has run, or None, does nothing.
clearTimeout(timers, ref) == timers \ {ref}

(* ------------------------------------------------ client: the WebSocket *)

\* The Connect button (shown while not connected): a new socket.  One socket
\* at a time: the previous one, if any, has closed.
ConnectWS ==
  /\ mounted
  /\ ~connected
  /\ wsReady \in {"NONE", "CLOSED"}
  /\ wsRef' = "ws"
  /\ wsReady' = "CONNECTING"
  /\ clast' = CLast("connectWS", None)
  /\ cemit' = <<>>
  /\ UNCHANGED <<vars, now, mounted, connected, gestureVars, micVars, emitted>>

\* ws.onopen
WsOpen ==
  /\ wsReady = "CONNECTING"
  /\ wsReady' = "OPEN"
  /\ connected' = TRUE
  /\ clast' = CLast("onopen", None)
  /\ cemit' = <<>>
  /\ UNCHANGED <<vars, now, mounted, wsRef, gestureVars, micVars, emitted>>

\* ws.onclose: the socket closed (the relay closed it, the connection failed,
\* or the close the page asked for has completed).  wsRef is left as it is.
WsClose ==
  /\ wsReady \in {"CONNECTING", "OPEN", "CLOSING"}
  /\ wsReady' = "CLOSED"
  /\ connected' = FALSE
  /\ clast' = CLast("onclose", None)
  /\ cemit' = <<>>
  /\ UNCHANGED <<vars, now, mounted, wsRef, gestureVars, micVars, emitted>>

\* disconnectWS(): closes the socket wsRef holds, if any, and forgets it.
\* It touches no timer.
disconnectWS ==
  /\ wsReady' = IF wsRef # "null" /\ wsReady \in {"CONNECTING", "OPEN"}
                  THEN "CLOSING" ELSE wsReady
  /\ wsRef' = "null"

\* The Disconnect button (shown while connected).
DisconnectWS ==
  /\ mounted
  /\ connected
  /\ disconnectWS
  /\ clast' = CLast("disconnectWS", wsRef)
  /\ cemit' = <<>>
  /\ UNCHANGED <<vars, now, mounted, connected, gestureVars, micVars, emitted>>

(* ------------------------------------------------- client: the touch pad *)

\* onPointerDown on the touch pad (rendered while connected).  An event with
\* isPrimary false returns at once and changes nothing: e is a primary one.
OnPointerDown(e) ==
  /\ mounted
  /\ connected
  /\ touchStart' = [x |-> e[1], y |-> e[2], isDown |-> TRUE]
  /\ clast' = CLast("down", None)
  /\ cemit' = <<>>
  /\ UNCHANGED <<vars, now, mounted, wsVars, lastTapTime, singleTapTimerRef,
                 tapTimers, ups, micVars, emitted>>

\* onPointerUp on the touch pad: swipe, second tap of a double tap, or a tap
\* that arms the single-tap timer.
OnPointerUp(e) ==
  /\ mounted
  /\ connected
  /\ Len(ups) < MaxUps
  /\ LET start == touchStart
         dx == e[1] - start.x
         dy == e[2] - start.y
     IN  /\ touchStart' = [touchStart EXCEPT !.isDown = FALSE]
         /\ IF isSwipe(dx, dy)
              THEN /\ cemit' = <<sendSignal(swipeSignal(dx), "swipe")>>
                   /\ tapTimers' = clearTimeout(tapTimers, singleTapTimerRef)
                   /\ singleTapTimerRef' = None
                   /\ lastTapTime' = 0
                   /\ ups' = Append(ups, [t |-> now, branch |-> "swipe"])
                   /\ clast' = CLast("up", [dx |-> dx, dy |-> dy, branch |-> "swipe"])
              ELSE IF now - lastTapTime < TAP_WINDOW
                THEN /\ tapTimers' = clearTimeout(tapTimers, singleTapTimerRef)
                     /\ singleTapTimerRef' = None
                     /\ lastTapTime' = 0
                     /\ cemit' = <<sendSignal("signal-2", "double")>>
                     /\ ups' = Append(ups, [t |-> now, branch |-> "double"])
                     /\ clast' = CLast("up", [dx |-> dx, dy |-> dy, branch |-> "double"])
                ELSE /\ lastTapTime' = now
                     /\ singleTapTimerRef' = now + TAP_WINDOW
                     /\ tapTimers' = tapTimers \cup {now + TAP_WINDOW}
                     /\ cemit' = <<>>
                     /\ ups' = Append(ups, [t |-> now, branch |-> "single"])
                     /\ clast' = CLast("up", [dx |-> dx, dy |-> dy, branch |-> "single"])
  /\ emitted' = emitted \o Names(cemit')
  /\ UNCHANGED <<vars, now, mounted, wsVars, micVars>>

\* The single-tap timeout d runs: sendSignal("signal-1") and the ref is
\* reset, whichever timer it holds.
TapTimerFire(d) ==
  /\ d \in tapTimers
  /\ d <= now
  /\ tapTimers' = tapTimers \ {d}
  /\ cemit' = <<sendSignal("signal-1", "tapTimer")>>
  /\ emitted' = emitted \o Names(cemit')
  /\ singleTapTimerRef' = None
  /\ clast' = CLast("tapTimer", d)
  /\ UNCHANGED <<vars, now, mounted, wsVars, touchStart, lastTapTime, ups, micVars>>

(* ------------------------------------------------ client: the microphone *)

KNOCK_DELAY == 250
KNOCK_WINDOW == 1000

RECURSIVE SumSq(_)
\* The sum over the frame of (data[i] - 128)^2.
SumSq(data) ==
  IF data = <<>> THEN 0
  ELSE (Head(data) - 128) * (Head(data) - 128) + SumSq(Tail(data))

\* rms > THRESH, where rms = sqrt(sum(((data[i] - 128) / 128)^2) / length) and
\* THRESH = 0.2: sum((data[i] - 128)^2) / (16384 * length) > 1 / 25.
isKnock(data) == 25 * SumSq(data) > 16384 * Len(data)

\* stopMic(): cancels the frame request rafRef holds, closes the context
\* audioCtxRef holds, clears the timer knockTimerRef holds.  It leaves
\* analyserRef and pendingKnockRef as they are.
stopMic ==
  /\ micEnabled' = FALSE
  /\ rafPending' = rafPending \ {rafRef}
  /\ rafRef' = None
  /\ audioCtx' = None
  /\ knockTimers' = clearTimeout(knockTimers, knockTimerRef)
  /\ knockTimerRef' = None
  /\ micStopped' = TRUE
  /\ micStops' = micStops + 1
  /\ UNCHANGED <<acquiring, analyserRef, nextLoop, lastKnockTime, pendingKnock, knocks>>

\* The Enable Mic button (shown while micEnabled is false): startMic() up to
\* its await of getUserMedia.
StartMic ==
  /\ mounted
  /\ ~micEnabled
  /\ nextLoop + acquiring <= MaxStarts
  /\ acquiring' = acquiring + 1
  /\ micStopped' = FALSE
  /\ clast' = CLast("startMic", None)
  /\ cemit' = <<>>
  /\ UNCHANGED <<vars, now, mounted, wsVars, gestureVars, emitted, micEnabled,
                 audioCtx, analyserRef, rafRef, rafPending, nextLoop,
                 lastKnockTime, pendingKnock, knockTimerRef, knockTimers, knocks,
                 micStops>>

\* getUserMedia resolved: the rest of startMic() runs: a new context and
\* analyser, setMicEnabled(true), and loopDetect() requests the first frame
\* of a new detect loop.
MicAcquired ==
  /\ acquiring > 0
  /\ acquiring' = acquiring - 1
  /\ audioCtx' = nextLoop
  /\ analyserRef' = nextLoop
  /\ micEnabled' = TRUE
  /\ rafRef' = nextLoop
  /\ rafPending' = rafPending \cup {nextLoop}
  /\ nextLoop' = nextLoop + 1
  /\ clast' = CLast("acquired", nextLoop)
  /\ cemit' = <<>>
  /\ UNCHANGED <<vars, now, mounted, wsVars, gestureVars, emitted, lastKnockTime,
                 pendingKnock, knockTimerRef, knockTimers, knocks, micStopped, micStops>>

\* getUserMedia rejected: the catch block only logs.
MicDenied ==
  /\ acquiring > 0
  /\ acquiring' = acquiring - 1
  /\ clast' = CLast("denied", None)
  /\ cemit' = <<>>
  /\ UNCHANGED <<vars, now, mounted, wsVars, gestureVars, emitted, micEnabled,
                 audioCtx, analyserRef, rafRef, rafPending, nextLoop, lastKnockTime,
                 pendingKnock, knockTimerRef, knockTimers, knocks, micStopped, micStops>>

\* The Disable Mic button (shown while micEnabled is true).
StopMic ==
  /\ mounted
  /\ micEnabled
  /\ stopMic
  /\ clast' = CLast("stopMic", None)
  /\ cemit' = <<>>
  /\ UNCHANGED <<vars, now, mounted, wsVars, gestureVars, emitted>>

\* One iteration of detect() of loop l on the frame data, ending with its
\* next frame request.
Detect(l, data) ==
  /\ l \in rafPending
  /\ isKnock(data) => Len(knocks) < MaxKnocks
  /\ IF isKnock(data)
       THEN /\ knocks' = Append(knocks, [t |-> now, pending |-> pendingKnock])
            /\ lastKnockTime' = now
            /\ IF ~pendingKnock
                 THEN /\ pendingKnock' = TRUE
                      /\ knockTimers' =
                           clearTimeout(knockTimers, knockTimerRef) \cup {now + KNOCK_DELAY}
                      /\ knockTimerRef' = now + KNOCK_DELAY
                      /\ cemit' = <<>>
                 ELSE IF now - lastKnockTime <= KNOCK_WINDOW
                   THEN /\ knockTimers' = clearTimeout(knockTimers, knockTimerRef)
                        /\ knockTimerRef' = None
                        /\ pendingKnock' = FALSE
                        /\ cemit' = <<sendSignal("signal-2", "knock")>>
                   ELSE /\ cemit' = <<>>
                        /\ UNCHANGED <<knockTimers, knockTimerRef, pendingKnock>>
       ELSE /\ cemit' = <<>>
            /\ UNCHANGED <<knocks, lastKnockTime, pendingKnock, knockTimers, knockTimerRef>>
  /\ emitted' = emitted \o Names(cemit')
  /\ rafRef' = l
  /\ clast' = CLast("detect", [loop |-> l, knock |-> isKnock(data)])
  /\ UNCHANGED <<vars, now, mounted, wsVars, gestureVars, micEnabled, acquiring,
                 audioCtx, analyserRef, rafPending, nextLoop, micStopped, micStops>>

\* Faulty variant: the timeout leaves the classifier pending.
onKnockTimeout_stuck == [pending |-> TRUE, signal |-> "signal-1"]

\* Faulty variant: the timeout sends the other signal.
onKnockTimeout_other == [pending |-> FALSE, signal |-> "signal-2"]

\* The body of the knock timeout:
\* pendingKnockRef.current = false; sendSignal("signal-1").
onKnockTimeout == [pending |-> FALSE, signal |-> "signal-1"]

\* The knock timeout d runs.  knockTimerRef keeps the timer that has run.
KnockTimerFire(d) ==
  /\ d \in knockTimers
  /\ d <= now
  /\ knockTimers' = knockTimers \ {d}
  /\ pendingKnock' = onKnockTimeout.pending
  /\ cemit' = <<sendSignal(onKnockTimeout.signal, "knockTimer")>>
  /\ emitted' = emitted \o Names(cemit')
  /\ clast' = CLast("knockTimer", d)
  /\ UNCHANGED <<vars, now, mounted, wsVars, gestureVars, micEnabled, acquiring,
                 audioCtx, analyserRef, rafRef, rafPending, nextLoop, lastKnockTime,
                 knockTimerRef, knocks, micStopped, micStops>>

(* ------------------------------------------- client: unmount and the clock *)

\* The cleanup of the mount effect: disconnectWS(); stopMic(); stopScan().
\* (stopScan stops the QR camera, which shares no state with the rest.)
Unmount ==
  /\ mounted
  /\ mounted' = FALSE
  /\ disconnectWS
  /\ stopMic
  /\ clast' = CLast("unmount", None)
  /\ cemit' = <<>>
  /\ UNCHANGED <<vars, now, connected, gestureVars, emitted>>

\* Time passes.  A timeout runs once its delay has passed: the clock does not
\* move beyond a timer that is due, and at the instant a timer is due it
\* and any other event run in either order.
TickTo(step, max) ==
  /\ now + step <= max * step
  /\ \A d \in tapTimers \cup knockTimers : d > now
  /\ now' = now + step
  /\ clast' = CLast("tick", None)
  /\ cemit' = <<>>
  /\ UNCHANGED <<vars, mounted, wsVars, gestureVars, micVars, emitted>>

GestureClock == TickTo(GestureTick, GestureMaxTicks)

MicClock == TickTo(MicTick, MicMaxTicks)

GestureNext ==
  \/ ConnectWS
  \/ WsOpen
  \/ WsClose
  \/ DisconnectWS
  \/ \E e \in DownPoints : OnPointerDown(e)
  \/ \E e \in UpPoints : OnPointerUp(e)
  \/ \E d \in tapTimers : TapTimerFire(d)
  \/ Unmount
  \/ GestureClock

\* The touch pad and the page's socket, with the relay and the microphone at rest.
GestureSpec == Init /\ [][GestureNext]_allVars

MicNext ==
  \/ StartMic
  \/ MicAcquired
  \/ MicDenied
  \/ StopMic
  \/ \E l \in rafPending, data \in Frames : Detect(l, data)
  \/ \E d \in knockTimers : KnockTimerFire(d)
  \/ Unmount
  \/ MicClock

\* The microphone, with the relay and the touch pad at rest.
MicSpec == Init /\ [][MicNext]_allVars

(* ------------------------------------------------- vocabulary of the claims *)

\* The envelopes of the last handler that went out to connection c.
Received(c) == SelectSeq(sent, LAMBDA m : m.to = c /\ m.ok)

\* The connection in slot r of Room(t), Null when there is none.
Slot(t, r) == IF rooms[t] = NoRoom THEN Null ELSE rooms[t][r]

\* Slot r of Room(t) holds a connection that is OPEN.
SlotOpen(t, r) == Slot(t, r) # Null /\ readyState[Slot(t, r)] = "OPEN"

\* The other role.
Opposite(r) == CHOOSE q \in Roles : q # r

\* The last handler was a leave: the close or error cleanup of a connection.
LastIsLeave == last.op \in {"close", "error"}

\* The name of a text that is a signal of the accepted vocabulary.
SignalNameOf(raw) ==
  CASE raw = RawSignal1 -> "signal-1"
    [] raw = RawSignal2Extra -> "signal-2"
    [] OTHER -> Undefined

(* ------------------------------------------------------------------ claims *)

\* C1: a valid signal (signal-1 or signal-2) from an accepted connection of
\* role R under T is forwarded, with the same name and nothing else, to the
\* connection in the opposite slot of Room(T) exactly when that slot holds an
\* OPEN connection; otherwise one error envelope is addressed to the sender
\* and nothing to the peer.  On a forward nothing is addressed to the sender.
C1_RoutingCorrectness ==
  (last.op = "message" /\ SignalNameOf(last.raw) # Undefined) =>
    LET peer == Slot(last.token, Opposite(last.role))
    IN IF SlotOpen(last.token, Opposite(last.role))
         THEN /\ sent = <<[to |-> peer,
                           env |-> [type |-> "signal", name |-> SignalNameOf(last.raw)],
                           ok |-> TRUE]>>
              /\ peer # last.c
         ELSE /\ Len(sent) = 1
              /\ sent[1].to = last.c
              /\ sent[1].env.type = "error"
              /\ sent[1].ok = (readyState[last.c] = "OPEN")

\* C1 witness: signal-2, sent with an extra field, was forwarded to an OPEN peer.
C1_Witness ==
  /\ last.op = "message"
  /\ last.raw = RawSignal2Extra
  /\ SlotOpen(last.token, Opposite(last.role))
  /\ Len(sent) = 1
  /\ sent[1].env = [type |-> "signal", name |-> "signal-2"]

\* C2: a join of role R under T that finds an OPEN connection C in slot R
\* closes C with code 4000 (not the bad-request code 1008) and installs the
\* new connection in the slot in the same step: after the step C is not OPEN
\* and the slot holds the new connection only.
C2_Replacement ==
  (last.op = "join" /\ last.prev # Null /\ prevReady[last.prev] = "OPEN") =>
    /\ prevRooms[last.token][last.role] = last.prev
    /\ closeCode[last.prev] = 4000
    /\ closeCode[last.prev] # 1008
    /\ readyState[last.prev] = "CLOSING"
    /\ Slot(last.token, last.role) = last.c
    /\ last.c # last.prev
    /\ readyState[last.c] = "OPEN"

\* C2 witness: a join has just replaced an OPEN occupant.
C2_Witness ==
  /\ last.op = "join"
  /\ last.prev # Null
  /\ prevReady[last.prev] = "OPEN"
  /\ closeCode[last.prev] = 4000

\* C3: the leave of a connection C clears slot R of Room(T) only if the slot
\* still holds C; when the slot held another connection D, D stays in it.
C3_StaleLeaveGuard ==
  (LastIsLeave /\ last.prev # last.c) => Slot(last.token, last.role) = last.prev

\* The status envelopes of the last handler that went out to connection c.
StatusReceived(c) ==
  SelectSeq(sent, LAMBDA m : m.to = c /\ m.ok /\ m.env.type = "status")

\* C4 as amended: after every join and every leave on T, every OPEN
\* connection in a slot of Room(T) receives exactly one status envelope, whose
\* desktop and web booleans say whether that role's slot is occupied (by a
\* connection that is OPEN or not); no status goes to any other connection.
C4_StatusMatchesOccupancy ==
  (last.op = "join" \/ LastIsLeave) =>
    /\ \A r \in Roles :
         SlotOpen(last.token, r) =>
           StatusReceived(Slot(last.token, r)) =
             <<[to |-> Slot(last.token, r),
                env |-> [type |-> "status",
                         desktop |-> Slot(last.token, "desktop") # Null,
                         web |-> Slot(last.token, "web") # Null],
                ok |-> TRUE]>>
    /\ \A c \in Conns :
         (\A r \in Roles : ~(SlotOpen(last.token, r) /\ Slot(last.token, r) = c)) =>
           SelectSeq(sent, LAMBDA m : m.to = c /\ m.env.type = "status") = <<>>

\* C4 witness: a connection joined a room whose other slot is empty and
\* received the status of that join itself.
C4_Witness ==
  /\ last.op = "join"
  /\ Slot(last.token, Opposite(last.role)) = Null
  /\ StatusReceived(last.c) # <<>>
  /\ StatusReceived(last.c)[1].env.desktop # StatusReceived(last.c)[1].env.web

\* C4 as claimed: the booleans of the status envelope received after a join
\* or leave on T equal the presence of an OPEN connection in that role's slot.
C4_StatusMatchesOpenPresence ==
  (last.op = "join" \/ LastIsLeave) =>
    \A r \in Roles :
      SlotOpen(last.token, r) =>
        StatusReceived(Slot(last.token, r)) =
          <<[to |-> Slot(last.token, r),
             env |-> [type |-> "status",
                      desktop |-> SlotOpen(last.token, "desktop"),
                      web |-> SlotOpen(last.token, "web")],
             ok |-> TRUE]>>

\* The OPEN connections that the relay accepted as role r under token t.
OpenAs(t, r) ==
  {c \in Conns : reg[c].accepted /\ reg[c].token = t /\ reg[c].role = r
                 /\ readyState[c] = "OPEN"}

\* C5: for every token T and each role, at most one OPEN connection holds
\* that role of Room(T).
C5_PairingUniqueness ==
  \A t \in Tokens, r \in Roles : Cardinality(OpenAs(t, r)) <= 1

\* The last handler ran on a well-formed text of kind signal whose name is not
\* signal-1 or signal-2.
LastIsUnknownSignal ==
  /\ last.op = "message"
  /\ last.raw \in {RawSignalBogus, RawSignalNoName}

\* C6: a signal whose name is not in {signal-1, signal-2} is never forwarded,
\* and its sender receives an error envelope.
C6_UnknownSignalRejected ==
  LastIsUnknownSignal =>
    /\ \A i \in 1 .. Len(sent) : sent[i].env.type # "signal"
    /\ \E i \in 1 .. Len(sent) : sent[i].to = last.c /\ sent[i].env.type = "error"

\* C7: a connection attempt whose token is missing or empty, or whose role is
\* missing or not desktop/web, is never joined: it is sent one error envelope
\* and then closed with code 1008, and the room map, every slot and every
\* other connection are as they were, with no status sent.
C7_HandshakeRejection ==
  /\ (last.op = "join") =>
       (last.token \notin {Missing, ""} /\ last.role \in {"desktop", "web"})
  /\ (last.op = "reject") =>
       /\ last.token \in {Missing, ""} \/ last.role \notin {"desktop", "web"}
       /\ sent = <<[to |-> last.c,
                    env |-> [type |-> "error", message |-> "Invalid token or role"],
                    ok |-> TRUE]>>
       /\ closeCode[last.c] = 1008
       /\ readyState[last.c] = "CLOSING"
       /\ ~reg[last.c].accepted
       /\ rooms = prevRooms
       /\ \A c \in Conns \ {last.c} :
            readyState[c] = prevReady[c] /\ (closeCode[c] # 0 => readyState[c] # "OPEN")

\* C7 witness: an attempt with a valid role and an empty token was rejected
\* while a room with an OPEN occupant exists.
C7_Witness ==
  /\ last.op = "reject"
  /\ last.token = ""
  /\ last.role = "web"
  /\ \E t \in Tokens : SlotOpen(t, "web")

\* C8: every ping from an accepted connection is answered with one pong
\* addressed to that sender and nothing to anyone else, whatever the room
\* holds; the pong goes out when the sender is OPEN.
C8_PingPong ==
  (last.op = "message" /\ last.raw = RawPing) =>
    sent = <<[to |-> last.c, env |-> [type |-> "pong"],
              ok |-> readyState[last.c] = "OPEN"]>>

\* C8 witness: an OPEN connection that is no longer in its slot, with an OPEN
\* peer present, sent a ping and received the pong.
C8_Witness ==
  /\ last.op = "message"
  /\ last.raw = RawPing
  /\ Slot(last.token, last.role) # last.c
  /\ SlotOpen(last.token, Opposite(last.role))
  /\ Received(last.c) = <<[to |-> last.c, env |-> [type |-> "pong"], ok |-> TRUE]>>

\* C9: a text that is not JSON produces exactly one error envelope, addressed
\* to the sender; nothing is addressed to anyone else, the rooms are as they
\* were, and every connection, the sender included, keeps its readyState.
C9_InvalidJson ==
  (last.op = "message" /\ last.raw = RawBadJson) =>
    /\ sent = <<[to |-> last.c,
                 env |-> [type |-> "error", message |-> "Invalid JSON"],
                 ok |-> readyState[last.c] = "OPEN"]>>
    /\ rooms = prevRooms
    /\ readyState = prevReady
    /\ reg[last.c].accepted

\* C9 witness: an OPEN connection in its slot, with an OPEN peer, sent a text
\* that is not JSON and received the error.
C9_Witness ==
  /\ last.op = "message"
  /\ last.raw = RawBadJson
  /\ Slot(last.token, last.role) = last.c
  /\ SlotOpen(last.token, Opposite(last.role))
  /\ Len(Received(last.c)) = 1

\* C10: a well-formed JSON message whose kind is neither signal nor ping is
\* answered with an error envelope to the sender, and the connection keeps
\* its readyState.
C10_UnknownKindRejected ==
  (last.op = "message" /\ last.raw = RawHello) =>
    /\ \E i \in 1 .. Len(sent) : sent[i].to = last.c /\ sent[i].env.type = "error"
    /\ readyState[last.c] = prevReady[last.c]

\* The detect iteration that just ran analysed a frame above the threshold.
LastIsKnock == clast.op = "detect" /\ clast.arg.knock

\* The number of knock frames so far.
NKnocks == Len(knocks)

\* C11: two knock frames more than 250 ms and at most 1000 ms apart, with the
\* microphone running throughout: the second emits signal-2, and no signal-1
\* is emitted.
C11_DoubleKnock ==
  (/\ LastIsKnock
   /\ NKnocks = 2
   /\ micStops = 0
   /\ knocks[2].t - knocks[1].t > 250
   /\ knocks[2].t - knocks[1].t <= 1000)
  => /\ Names(cemit) = <<"signal-2">>
     /\ emitted = <<"signal-2">>

\* C12: a knock frame that finds the classifier quiet sets the 250 ms timer;
\* when that timer runs, no knock frame came in between, exactly one signal-1
\* is emitted and the classifier is quiet again (pending is false); once the
\* 250 ms have passed with the timer not cleared, that has happened.
C12_SingleKnock ==
  /\ (LastIsKnock /\ ~knocks[NKnocks].pending)
       => /\ cemit = <<>>
          /\ pendingKnock
          /\ knockTimerRef = now + 250
          /\ knockTimers = {now + 250}
  /\ (clast.op = "knockTimer")
       => /\ Names(cemit) = <<"signal-1">>
          /\ ~pendingKnock
          /\ knockTimers = {}
          /\ NKnocks > 0
          /\ knocks[NKnocks].t + 250 = clast.arg
          /\ ~knocks[NKnocks].pending
          /\ now >= clast.arg
  /\ (/\ NKnocks > 0
      /\ ~knocks[NKnocks].pending
      /\ knockTimerRef = knocks[NKnocks].t + 250
      /\ now > knocks[NKnocks].t + 250)
       => /\ ~pendingKnock
          /\ knockTimers = {}
          /\ emitted[Len(emitted)] = "signal-1"

\* C12 witness: the timer of a lone knock frame has just run and sent the
\* only signal so far.
C12_Witness ==
  /\ clast.op = "knockTimer"
  /\ NKnocks = 1
  /\ emitted = <<"signal-1">>
  /\ ~pendingKnock

\* C13: two knock frames more than 1000 ms apart, with the microphone
\* running throughout: the second finds the classifier quiet again, no
\* signal-2 is emitted, and once the timer of the second has run the signals
\* emitted are two signal-1.
C13_TwoSingleKnocks ==
  (/\ NKnocks = 2
   /\ micStops = 0
   /\ knocks[2].t - knocks[1].t > 1000)
  => /\ ~knocks[2].pending
     /\ \A i \in 1 .. Len(emitted) : emitted[i] = "signal-1"
     /\ Len(emitted) \in {1, 2}
     /\ (knockTimers = {}) <=> (emitted = <<"signal-1", "signal-1">>)
     /\ (knockTimers = {}) <=> ~pendingKnock

\* C13 witness: knock frames 1250 ms apart, and the timer of the second has
\* just run.
C13_Witness ==
  /\ NKnocks = 2
  /\ micStops = 0
  /\ knocks[2].t - knocks[1].t = 1250
  /\ clast.op = "knockTimer"
  /\ emitted = <<"signal-1", "signal-1">>

\* The branch and the movement of the pointer-up that was just handled.
LastUp == clast.arg

LastIsUp == clast.op = "up"

\* C14: two non-swipe pointer-ups less than 300 ms apart, the first of which
\* set the single-tap timer: the second emits signal-2 exactly once and the
\* timer the first one set is cancelled, so that it never sends signal-1.
C14_DoubleTap ==
  (/\ LastIsUp
   /\ LastUp.branch # "swipe"
   /\ Len(ups) >= 2
   /\ ups[Len(ups) - 1].branch = "single"
   /\ now - ups[Len(ups) - 1].t < 300)
  => /\ Names(cemit) = <<"signal-2">>
     /\ (ups[Len(ups) - 1].t + 300) \notin tapTimers

\* C15: a non-swipe pointer-up with no other tap in the 300 ms before it, at
\* any value of the clock (the first tap of the page included), emits nothing
\* itself (no signal-2) and sets the timer that sends signal-1 300 ms later.
C15_SingleTap ==
  (/\ LastIsUp
   /\ LastUp.branch # "swipe"
   /\ \A i \in 1 .. Len(ups) - 1 :
        ups[i].branch # "swipe" => now - ups[i].t >= 300)
  => /\ cemit = <<>>
     /\ (now + 300) \in tapTimers

\* C16: a pointer-up with |dx| > 60 and |dx| > 2|dy| emits exactly one
\* signal at once, signal-1 if dx > 0 and signal-2 if dx < 0; any other
\* pointer-up (|dx| = 60 or |dx| = 2|dy| included) emits no swipe signal and
\* is handled as a tap: it is the second tap of a double tap or sets the
\* single-tap timer.
C16_SwipeClassification ==
  LastIsUp =>
    IF Abs(LastUp.dx) > 60 /\ Abs(LastUp.dx) > 2 * Abs(LastUp.dy)
      THEN /\ Len(cemit) = 1
           /\ cemit[1].by = "swipe"
           /\ LastUp.dx > 0 => cemit[1].name = "signal-1"
           /\ LastUp.dx < 0 => cemit[1].name = "signal-2"
           /\ LastUp.dx # 0
      ELSE /\ \A i \in 1 .. Len(cemit) : cemit[i].by # "swipe"
           /\ \/ LastUp.branch = "double" /\ Names(cemit) = <<"signal-2">>
              \/ /\ LastUp.branch = "single"
                 /\ cemit = <<>>
                 /\ singleTapTimerRef = now + 300
                 /\ singleTapTimerRef \in tapTimers

\* C16 witness: the swipe of the example, from (100, 100) to (170, 102), has
\* sent signal-1, and before it a pointer-up with |dx| = 60 was taken as a tap.
C16_Witness ==
  /\ LastIsUp
  /\ LastUp.dx = 70
  /\ LastUp.dy = 2
  /\ Names(cemit) = <<"signal-1">>
  /\ cemit[1].ok
  /\ Len(ups) = 2
  /\ ups[1].branch # "swipe"

\* C17 (relay part): an error event followed by the close event of the same
\* connection clears the slot and broadcasts the status once, not twice: the
\* second of the two handlers sends nothing.
C17_IdempotentTeardown ==
  [][(last.op = "error" /\ last'.op = "close" /\ last'.c = last.c) => sent' = <<>>]_allVars

\* C18: teardown releases the timers: after disconnectWS, and after the
\* unmount cleanup, no single-tap timer and no knock timer is left to run,
\* and none runs once the page is unmounted.
C18_TeardownReleasesTimers ==
  /\ clast.op \in {"disconnectWS", "unmount"} => tapTimers = {} /\ knockTimers = {}
  /\ clast.op \in {"tapTimer", "knockTimer"} => mounted

\* C19: no iteration of the detect loop runs after stopMic has returned
\* (until startMic is called again), whatever the interleaving of startMic,
\* stopMic and the completion of getUserMedia.
C19_NoDetectAfterStop ==
  /\ clast.op = "detect" => ~micStopped
  /\ micStopped => rafPending = {}

\* C20: the first envelope an accepted connection receives is
\* connected{role, token} with the role and token it supplied; the status of
\* its join comes after it, and no signal or status reaches a connection that
\* has not been accepted yet.
C20_JoinOrdering ==
  /\ \A i \in 1 .. Len(sent) : readyState[sent[i].to] # "NONE" /\ sent[i].to < nextId
  /\ (last.op = "join") =>
       /\ sent[1] = [to |-> last.c,
                     env |-> [type |-> "connected", role |-> last.role, token |-> last.token],
                     ok |-> TRUE]
       /\ prevReady[last.c] = "NONE"
       /\ \A i \in 2 .. Len(sent) :
            sent[i].to = last.c => sent[i].env.type = "status"
       /\ \E i \in 2 .. Len(sent) : sent[i].to = last.c /\ sent[i].env.type = "status"

\* C20 witness: a connection joined a room whose other slot holds an OPEN
\* connection; it was sent connected first, and the status went to both.
C20_Witness ==
  /\ last.op = "join"
  /\ SlotOpen(last.token, Opposite(last.role))
  /\ Len(sent) = 3
  /\ sent[1].env.type = "connected"
  /\ sent[1].to = last.c

\* C21: no queuing: a valid signal whose peer slot is empty or not OPEN is
\* dropped: its handler sends the sender one error, sends nothing else and
\* leaves the rooms and the sockets as they were; a signal envelope is sent
\* only by the handler of the message that carries it; and a join, also one
\* into the slot a signal was just dropped for, sends nothing but connected
\* and status.
C21_NoQueuing ==
  /\ \A i \in 1 .. Len(sent) :
       sent[i].env.type = "signal" =>
         /\ last.op = "message"
         /\ sent[i].env.name = SignalNameOf(last.raw)
         /\ Len(sent) = 1
  /\ last.op = "message" => rooms = prevRooms /\ readyState = prevReady
  /\ (/\ last.op = "message"
      /\ last.raw \in {RawSignal1, RawSignal2Extra}
      /\ ~SlotOpen(last.token, Opposite(last.role)))
       => sent = <<[to |-> last.c,
                    env |-> [type |-> "error", message |-> "Peer not connected"],
                    ok |-> readyState[last.c] = "OPEN"]>>
  /\ last.op = "join" =>
       \A i \in 1 .. Len(sent) : sent[i].env.type \in {"connected", "status"}

\* C21 witness: a connection has joined the slot for which the handler just
\* before dropped a valid signal of its peer, and the peer is still OPEN; the
\* new connection was sent connected and status only.
C21_Witness ==
  /\ last.op = "join"
  /\ afterDrop
  /\ SlotOpen(last.token, Opposite(last.role))
  /\ Len(Received(last.c)) = 2

\* C22: a swipe resolved while a single tap is pending (a tap less than
\* 300 ms before set the timer) cancels that timer and resets the last-tap
\* time, so the pending tap never sends signal-1; and a tap right after the
\* swipe, still within 300 ms of the earlier tap, is not a double tap: it
\* sends nothing and sets the single-tap timer.
C22_SwipeCancelsPendingTap ==
  /\ (/\ LastIsUp
      /\ LastUp.branch = "swipe"
      /\ Len(ups) >= 2
      /\ ups[Len(ups) - 1].branch = "single"
      /\ now - ups[Len(ups) - 1].t < 300)
       => /\ (ups[Len(ups) - 1].t + 300) \notin tapTimers
          /\ lastTapTime = 0
  /\ (/\ LastIsUp
      /\ LastUp.branch # "swipe"
      /\ Len(ups) >= 3
      /\ ups[Len(ups) - 1].branch = "swipe"
      /\ ups[Len(ups) - 2].branch = "single"
      /\ now - ups[Len(ups) - 2].t < 300)
       => /\ LastUp.branch = "single"
          /\ cemit = <<>>
          /\ (now + 300) \in tapTimers

\* C23: three quick taps, each less than 300 ms after the one before and
\* with no pointer-up before them: the second is the double tap, and the
\* third is not read as another one: it sends nothing and sets the
\* single-tap timer, so that the signals so far are one signal-2.
C23_TripleTap ==
  (/\ LastIsUp
   /\ Len(ups) = 3
   /\ \A i \in 1 .. 3 : ups[i].branch # "swipe"
   /\ ups[2].t - ups[1].t < 300
   /\ ups[3].t - ups[2].t < 300)
  => /\ ups[2].branch = "double"
     /\ LastUp.branch = "single"
     /\ cemit = <<>>
     /\ emitted = <<"signal-2">>
     /\ (now + 300) \in tapTimers

\* C24: a knock frame that finds the classifier pending more than 1000 ms
\* after the knock before it is a new first knock: its time is recorded and
\* the 250 ms timer is set for it, and it emits nothing itself.
C24_LateKnockWhilePending ==
  (/\ LastIsKnock
   /\ NKnocks >= 2
   /\ knocks[NKnocks].pending
   /\ knocks[NKnocks].t - knocks[NKnocks - 1].t > 1000)
  => /\ lastKnockTime = now
     /\ cemit = <<>>
     /\ pendingKnock
     /\ knockTimerRef = now + 250
     /\ (now + 250) \in knockTimers

\* C25: token isolation: a handler that runs for a connection under token T
\* (its join, its message, its close or error) sends only to connections
\* accepted under T and leaves the room of every other token as it was; a
\* rejected handshake and an arriving close frame change no room.
C25_TokenIsolation ==
  /\ last.op \in {"join", "message", "close", "error"} =>
       /\ reg[last.c].accepted
       /\ reg[last.c].token = last.token
       /\ \A i \in 1 .. Len(sent) :
            reg[sent[i].to].accepted /\ reg[sent[i].to].token = last.token
       /\ \A t \in Tokens \ {last.token} : rooms[t] = prevRooms[t]
  /\ last.op \in {"reject", "closing"} =>
       /\ rooms = prevRooms
       /\ \A i \in 1 .. Len(sent) : sent[i].to = last.c

\* C25 witness: a join under one token has broadcast its status while the
\* room of another token holds an OPEN connection.
C25_Witness ==
  /\ last.op = "join"
  /\ Len(sent) = 3
  /\ \E t \in Tokens \ {last.token}, r \in Roles : SlotOpen(t, r)

\* C26: every accepted connection that is OPEN occupies the slot of its role
\* in the room of its token.
C26_RegistrationInvariant ==
  \A c \in Conns :
    (reg[c].accepted /\ readyState[c] = "OPEN") => Slot(reg[c].token, reg[c].role) = c

\* C27: a signal is forwarded to the peer only if the connection that sent it
\* occupies the slot of its role in the room of its token.
C27_ForwardOnlyFromOccupant ==
  (/\ last.op = "message"
   /\ \E i \in 1 .. Len(sent) : sent[i].env.type = "signal" /\ sent[i].ok)
  => Slot(last.token, last.role) = last.c

\* C28: knock-state invariant: whenever the pending flag is true, the 250 ms
\* timer that will clear it is set, whatever the sequence of knock frames,
\* timeouts, stopMic and startMic.
C28_KnockStateInvariant ==
  pendingKnock => knockTimerRef \in knockTimers

====
